---- MODULE Spec2Model ----
(***************************************************************************)
(* State-machine model of SITL::Aircraft (libraries/SITL/SIM_Aircraft.cpp). *)
(*                                                                         *)
(* Fixed-point units used for the float quantities of the source:          *)
(*   position            mm        (down-positive z, as in the source)     *)
(*   velocity            mm/s                                              *)
(*   acceleration        cm/s^2                                            *)
(*   angular rate        deg/s     angular acceleration deg/s^2            *)
(*   simulation time     us        AP_HAL::millis() ms                     *)
(*   altitude (Location) cm        home.alt, location.alt (int32 in source)*)
(*   angles              degrees; 37 stands for atan(3/4), whose sine and  *)
(*                       cosine are the rationals 3/5 and 4/5              *)
(* A float product is a truncating integer product (DivR, ScaleDt).        *)
(***************************************************************************)
EXTENDS Integers, Sequences, FiniteSets, TLC

\* ------------------------------------------------------------------ bounds
\* number of update_model calls explored
MaxTicks == 4
\* number of fill_fdm calls explored
MaxFills == 3
\* number of extrapolate_sensors calls explored
MaxExtrap == 2
\* number of disturbance-injector calls explored
MaxCalls == 3
\* number of times a disturbance is armed
MaxArms == 2

\* --------------------------------------------------------- program constants
\* GRAVITY_MSS (9.80665 m/s^2) in cm/s^2
GRAVITY_CMSS == 981
\* on_ground(): hagl() <= 0.001f, in mm
GROUND_EPS_MM == 1
\* radians(2000.0f) rate clamp, in deg/s
GYRO_LIMIT_DEGS == 2000
\* rate_hz(1200.0f) in the constructor
DEFAULT_RATE_HZ == 1200
\* ground-contact notice spacing, ms
NOTICE_GAP_MS == 1000
\* FWD_ONLY: velocity_ef.length() < 5, in cm/s
FWD_SPEED_CMS == 500
\* smooth_sensors: delta_pos.length() > 10, in cm
SMOOTH_RESET_CM == 1000
\* smooth_sensors: delta_time > 0.1, in us
SMOOTH_MAX_DT_US == 100000
\* smooth_sensors: time_constant = 0.1f as a divisor (1/0.1)
SMOOTH_INV_TC == 10
\* smooth_sensors: accel_limit = 14 * GRAVITY_MSS, in units of g
SMOOTH_ACCEL_G == 14

\* ------------------------------------------------------------- arithmetic
\* float division, truncated toward zero
DivR(n, d) ==
    IF n >= 0 THEN n \div d ELSE -((-n) \div d)

Abs(n) ==
    IF n >= 0 THEN n ELSE -n

Max(a, b) ==
    IF a >= b THEN a ELSE b

\* constrain_float(v, lo, hi)
Constrain(v, lo, hi) ==
    IF v < lo THEN lo ELSE IF v > hi THEN hi ELSE v

\* q * dt / d for a time dt in us, split so that the product stays in range
ScaleDt(q, dt, d) ==
    DivR(q * (dt \div 1000), d \div 1000) + DivR(q * (dt % 1000), d)

\* ---------------------------------------------------------------- vectors
Vec(a, b, c) ==
    [x |-> a, y |-> b, z |-> c]

Zero3 ==
    Vec(0, 0, 0)

VAdd(u, v) ==
    Vec(u.x + v.x, u.y + v.y, u.z + v.z)

VSub(u, v) ==
    Vec(u.x - v.x, u.y - v.y, u.z - v.z)

\* v * dt / d, componentwise
VScaleDt(v, dt, d) ==
    Vec(ScaleDt(v.x, dt, d), ScaleDt(v.y, dt, d), ScaleDt(v.z, dt, d))

\* |v|^2 of a vector given in tenths of the unit the result is in
\* (mm/s -> (cm/s)^2, mm -> cm^2): Vector3f::length() compared by its square
LenSq10(v) ==
    DivR(v.x, 10) * DivR(v.x, 10) + DivR(v.y, 10) * DivR(v.y, 10)
        + DivR(v.z, 10) * DivR(v.z, 10)

\* ------------------------------------------------------------- attitudes
\* the orientation matrix is kept as the Euler angles it was built from
AngleSet ==
    {-90, -37, 0, 37, 90, 180}

\* 5 * sin(a)
S5(a) ==
    CASE a = -90 -> -5 [] a = -37 -> -3 [] a = 0 -> 0
      [] a = 37 -> 3 [] a = 90 -> 5 [] a = 180 -> 0

\* 5 * cos(a)
C5(a) ==
    CASE a = -90 -> 0 [] a = -37 -> 4 [] a = 0 -> 5
      [] a = 37 -> 4 [] a = 90 -> 0 [] a = 180 -> -5

\* Matrix3f::from_euler(roll, pitch, yaw)
FromEuler(r, p, y) ==
    [roll |-> r, pitch |-> p, yaw |-> y]

\* Matrix3f::to_euler: at pitch +-90 the roll column vanishes and roll reads 0
ToEuler(m) ==
    IF m.pitch = 90 \/ m.pitch = -90
    THEN [roll |-> 0, pitch |-> m.pitch, yaw |-> m.yaw]
    ELSE [roll |-> m.roll, pitch |-> m.pitch, yaw |-> m.yaw]

\* the nine entries of the rotation matrix, each times 125
Mat(m) ==
    LET sr == S5(m.roll)
        cr == C5(m.roll)
        sp == S5(m.pitch)
        cp == C5(m.pitch)
        sy == S5(m.yaw)
        cy == C5(m.yaw)
    IN  [ax |-> cp * cy * 5, ay |-> sr * sp * cy - cr * sy * 5,
         az |-> cr * sp * cy + sr * sy * 5,
         bx |-> cp * sy * 5, by |-> sr * sp * sy + cr * cy * 5,
         bz |-> cr * sp * sy - sr * cy * 5,
         cx |-> -(sp * 25), cy |-> sr * cp * 5, cz |-> cr * cp * 5]

\* Matrix3f * Vector3f (body frame to earth frame)
Rot(m, v) ==
    LET M == Mat(m)
    IN  Vec(DivR(M.ax * v.x + M.ay * v.y + M.az * v.z, 125),
            DivR(M.bx * v.x + M.by * v.y + M.bz * v.z, 125),
            DivR(M.cx * v.x + M.cy * v.y + M.cz * v.z, 125))

\* Matrix3f::transposed() * Vector3f (earth frame to body frame)
RotT(m, v) ==
    LET M == Mat(m)
    IN  Vec(DivR(M.ax * v.x + M.bx * v.y + M.cx * v.z, 125),
            DivR(M.ay * v.x + M.by * v.y + M.cy * v.z, 125),
            DivR(M.az * v.x + M.bz * v.y + M.cz * v.z, 125))

\* the attitudes a rotation step may end in
Attitudes ==
    { FromEuler(0, 37, 0), FromEuler(37, -37, 90) }

\* Matrix3f::rotate(g) followed by normalize(): a zero rotation vector leaves
\* the matrix as it is; any other rotation ends in one of Attitudes
Rotate(m, g) ==
    IF g = Zero3 THEN {m} ELSE Attitudes

\* ------------------------------------------------------------------ state
VARIABLES
    \* collaborators
    sitl_present,        \* sitl != nullptr (AP::sitl() in the constructor)
    terrain_enable,      \* sitl->terrain_enable && terrain && height_amsl() succeed
    millis,              \* AP_HAL::millis()
    \* Aircraft members
    home_is_set, home, home_yaw, location, ground_level, frame_height,
    position, velocity_ef, accel_body, gyro, gyro_prev, ang_accel, dcm,
    ground_behavior, use_smoothing, last_ground_contact_ms,
    time_now_us, last_time_us, use_time_sync,
    rate_hz, target_speedup, frame_time_us, scaled_frame_time_ns,
    frame_counter, last_wall_time_us,
    achieved_rate_hz,    \* in mHz
    \* the host: its wall clock (get_wall_time_us), what a tick costs on it, and
    \* whether the backend moved the simulation clock since the last time_advance
    host,
    \* the SITL parameter object behind the sitl pointer: shove, twist,
    \* gnd_behav, speedup, ahrs_rotation (read only while sitl_present)
    sitl,
    \* the AP_Param store: AHRS_ORIENTATION ("null" when the parameter is not
    \* found) and whether the AHRS_CUSTOM_* parameters can be found
    params,
    smoothing,           \* the smoothed copy of the state
    last_imu_rotation, custom_found, last_speedup,
    fdm,                 \* the sitl_fdm structure the caller passes to fill_fdm
    \* observations of the last operation (history variables)
    last_op,             \* name of the operation that ran last
    dyn,                 \* intermediate values of the last update_dynamics
    notices,             \* AP_HAL::millis() of every "SIM Hit ground" notice sent
    set_calls,           \* number of set_start_location runs
    update_calls,        \* number of update() runs
    ticks,               \* number of update_model calls
    fault,               \* "none", "panic" or "null_deref"
    steps,               \* calls of the other operations, by kind
    fill_obs,            \* what the last fill_fdm saw and did
    sync_obs,            \* what the last sync_frame_time saw and did
    inj                  \* what the disturbance injectors were given and added

vars ==
    << sitl_present, terrain_enable, millis,
       home_is_set, home, home_yaw, location, ground_level, frame_height,
       position, velocity_ef, accel_body, gyro, gyro_prev, ang_accel, dcm,
       ground_behavior, use_smoothing, last_ground_contact_ms,
       time_now_us, last_time_us, use_time_sync,
       rate_hz, target_speedup, frame_time_us, scaled_frame_time_ns,
       frame_counter, last_wall_time_us, achieved_rate_hz, host, sync_obs,
       sitl, params, smoothing, last_imu_rotation, custom_found, last_speedup,
       fdm,
       last_op, dyn, notices, set_calls, update_calls, ticks, fault,
       steps, fill_obs, inj >>

\* the frame-pacing state and the host's clock
pace_vars ==
    << frame_counter, last_wall_time_us, achieved_rate_hz, host, sync_obs >>

\* the state update_model and the vehicle's update leave alone
fdm_vars ==
    << sitl, params, smoothing, last_imu_rotation, custom_found, last_speedup,
       fdm, steps, fill_obs, inj >>

GroundBehaviours ==
    {"NONE", "NO_MOVEMENT", "FWD_ONLY", "TAILSITTER"}

\* Location: lat/lng in 1e-7 degrees, alt in cm
Loc(a, b, c) ==
    [lat |-> a, lng |-> b, alt |-> c]

\* the observation record of a tick in which update_dynamics did not run
NoDyn ==
    [ran |-> FALSE, was_on_ground |-> FALSE, contact |-> FALSE,
     accel_earth |-> Zero3, vel_int |-> Zero3, pos_int |-> Zero3,
     att_rot |-> FromEuler(0, 0, 0), ghd |-> 0, sent |-> FALSE]

\* ------------------------------------------------------------ frame time
\* static_cast<uint64_t>(1.0e6f / rate_hz)
FrameTimeUs(rate) ==
    1000000 \div rate

\* frame_time_us / target_speedup, in ns
ScaledFrameTimeNs(ft, speedup) ==
    DivR(ft * 1000, speedup)

\* the mounting rotations told apart
Rotations ==
    {"NONE", "YAW_90", "CUSTOM"}

\* Matrix3f::from_rotation; ROTATION_CUSTOM gives the identity matrix
FromRotation(r) ==
    IF r = "YAW_90" THEN FromEuler(0, 0, 90) ELSE FromEuler(0, 0, 0)

\* the parameter store: AHRS_ORIENTATION and the AHRS_CUSTOM_* parameters
ParamStore(ao, cf) ==
    [ahrs_orientation |-> ao, custom_findable |-> cf]

DefaultParams ==
    ParamStore("NONE", TRUE)

\* ahrs_orientation ? ahrs_orientation->get() : ROTATION_NONE
OrientationRead(ps) ==
    IF ps.ahrs_orientation = "null" THEN "NONE" ELSE ps.ahrs_orientation

\* a shove or twist that is not armed
NoDisturbance ==
    [t |-> 0, start_ms |-> 0, x |-> 0, y |-> 0, z |-> 0]

\* the smoothing member before its first use
NoSmoothing ==
    [enabled |-> FALSE, position |-> Zero3, rotation_b2e |-> FromEuler(0, 0, 0),
     accel_body |-> Zero3, velocity_ef |-> Zero3, gyro |-> Zero3,
     last_update_us |-> 0, location |-> Loc(0, 0, 0)]

\* a sitl_fdm structure nothing has been written to
NoFdm ==
    [timestamp_us |-> 0, home |-> Loc(0, 0, 0), location |-> Loc(0, 0, 0),
     speed |-> Zero3, accel |-> Zero3, rates |-> Zero3, angAccel |-> Zero3,
     att |-> FromEuler(0, 0, 0)]

\* the observation record before the first fill_fdm
NoFillObs ==
    [smoothed |-> FALSE, first_use |-> FALSE, div_sq |-> 0, reset |-> FALSE,
     had_prev |-> FALSE, truth_prev |-> Zero3, truth_now |-> Zero3,
     imu_rotation |-> "NONE", resolvable |-> FALSE, remapped |-> FALSE,
     null_read |-> FALSE, elapsed |-> 0, skipped |-> FALSE, kept |-> TRUE,
     prev_skipped |-> FALSE, since_prev |-> 0]

\* the observation record before the first sync_frame_time
NoSyncObs ==
    [updated |-> FALSE, counter |-> 0, elapsed |-> 0, sleep_time |-> 0,
     slept |-> FALSE, moved |-> FALSE, added |-> 0, windows |-> 0]

\* an injector that was never armed and never called
NoInjObs ==
    [armed_t |-> 0, mag |-> Zero3, first_ms |-> -1, now |-> 0, add |-> Zero3]

\* Aircraft::Aircraft: the state after construction. The subclass constructor
\* chooses ground_behavior and frame_height; sp says whether AP::sitl() exists,
\* ps is the parameter store at that moment; rt is the runtime: whether the
\* subclass keeps use_time_sync and what a tick costs on the host.
ConstructedWith(sp, te, gb, fh, ps, rt) ==
    /\ sitl = [shove |-> NoDisturbance, twist |-> NoDisturbance, gnd_behav |-> -1,
               speedup |-> 1,
               ahrs_rotation |-> FromRotation(OrientationRead(ps))]
    /\ params = ps
    /\ smoothing = NoSmoothing
    /\ last_imu_rotation = OrientationRead(ps)
    /\ custom_found = FALSE
    /\ last_speedup = -1
    /\ fdm = NoFdm
    /\ steps = [fills |-> 0, calls |-> 0, arms |-> 0, extraps |-> 0, sets |-> 0,
                clock |-> 0, retunes |-> 0]
    /\ fill_obs = NoFillObs
    /\ inj = [shove |-> NoInjObs, twist |-> NoInjObs]
    /\ sitl_present = sp
    /\ terrain_enable = te
    /\ millis = 0
    /\ home_is_set = FALSE
    /\ home = Loc(0, 0, 0)
    /\ home_yaw = 0
    /\ location = Loc(0, 0, 0)
    /\ ground_level = 0
    /\ frame_height = fh
    /\ position = Zero3
    /\ velocity_ef = Zero3
    /\ accel_body = Vec(0, 0, -GRAVITY_CMSS)
    /\ gyro = Zero3
    /\ gyro_prev = Zero3
    /\ ang_accel = Zero3
    /\ dcm = FromEuler(0, 0, 0)
    /\ ground_behavior = gb
    /\ use_smoothing = FALSE
    /\ last_ground_contact_ms = 0
    /\ time_now_us = 0
    /\ last_time_us = 0
    /\ use_time_sync = rt.use_time_sync
    /\ frame_counter = 0
    /\ last_wall_time_us = 0
    /\ achieved_rate_hz = DEFAULT_RATE_HZ * 1000
    /\ host = [wall_us |-> 0, tick_cost |-> rt.tick_cost, advanced |-> FALSE]
    /\ sync_obs = NoSyncObs
    /\ rate_hz = DEFAULT_RATE_HZ
    /\ target_speedup = 1
    /\ frame_time_us = FrameTimeUs(DEFAULT_RATE_HZ)
    /\ scaled_frame_time_ns = ScaledFrameTimeNs(FrameTimeUs(DEFAULT_RATE_HZ), 1)
    /\ last_op = "construct"
    /\ dyn = NoDyn
    /\ notices = << >>
    /\ set_calls = 0
    /\ update_calls = 0
    /\ ticks = 0
    /\ fault = "none"

\* a vehicle whose subclass switches the wall-clock pacing off
Constructed(sp, te, gb, fh, ps) ==
    ConstructedWith(sp, te, gb, fh, ps, [use_time_sync |-> FALSE, tick_cost |-> 0])

\* ------------------------------------------------------- ground contact
\* the terrain collaborator: height above the datum at a location, in mm
TerrainAmsl(loc) ==
    IF loc.lat >= 1001 THEN 50 ELSE 0

\* Aircraft::ground_height_difference
GroundHeightDifference(sp, te, hm, loc) ==
    IF sp /\ te THEN TerrainAmsl(loc) - TerrainAmsl(hm) ELSE 0

\* Aircraft::hagl, in mm (home.alt is in cm)
Hagl(pz, halt, gl, fh, ghd) ==
    (-pz) + halt * 10 - gl - fh - ghd

\* Aircraft::on_ground
OnGround(pz, halt, gl, fh, ghd) ==
    Hagl(pz, halt, gl, fh, ghd) <= GROUND_EPS_MM

\* GroundZ with the frame height left out of the clamp
GroundZ_NoFrameHeight(gl, fh, halt, ghd) ==
    -(gl - halt * 10 + ghd)

\* the altitude the ground clamp snaps position.z to
GroundZ(gl, fh, halt, ghd) ==
    -(gl + fh - halt * 10 + ghd)

\* vertical acceleration limited to zero while on the ground
ClampAccelZ(on, a) ==
    IF on /\ a.z > 0 THEN [a EXCEPT !.z = 0] ELSE a

\* NoticeDue without the one-second spacing
NoticeDue_NoSpacing(was, now, last) ==
    ~was

\* whether the ground-contact notice is sent
NoticeDue(was, now, last) ==
    (~was) /\ now - last > NOTICE_GAP_MS

\* GroundNoMovement without the clamp of a downward velocity
GroundNoMovement_KeepZ(m, v) ==
    LET e == ToEuler(m)
    IN  [dcm |-> FromEuler(0, 0, e.yaw), velocity_ef |-> Vec(0, 0, v.z)]

\* GROUND_BEHAVIOR_NO_MOVEMENT
GroundNoMovement(m, v) ==
    LET e == ToEuler(m)
    IN  [dcm |-> FromEuler(0, 0, e.yaw),
         velocity_ef |-> Vec(0, 0, IF v.z > 0 THEN 0 ELSE v.z)]

\* FwdOnlyPitch that levels the vehicle at every speed
FwdOnlyPitch_AlwaysLevel(v, p) ==
    0

\* the pitch GROUND_BEHAVIOR_FWD_ONLY leaves the vehicle with
FwdOnlyPitch(v, p) ==
    IF LenSq10(v) < FWD_SPEED_CMS * FWD_SPEED_CMS THEN 0 ELSE Max(p, 0)

\* GROUND_BEHAVIOR_FWD_ONLY
GroundFwdOnly(m, v) ==
    LET e == ToEuler(m)
        d == FromEuler(0, FwdOnlyPitch(v, e.pitch), e.yaw)
        b == RotT(d, v)
        f == Vec(IF b.x < 0 THEN 0 ELSE b.x, 0, b.z)
        w == Rot(d, f)
    IN  [dcm |-> d,
         velocity_ef |-> IF w.z > 0 THEN [w EXCEPT !.z = 0] ELSE w]

\* TailsitterZeroes with the comparison the other way round
TailsitterZeroes_Inverted(az) ==
    az * 10 <= -(11 * GRAVITY_CMSS)

\* whether GROUND_BEHAVIOR_TAILSITTER zeroes the velocity:
\* accel_earth.z > -1.1*GRAVITY_MSS
TailsitterZeroes(az) ==
    az * 10 > -(11 * GRAVITY_CMSS)

\* GROUND_BEHAVIOR_TAILSITTER
GroundTailsitter(m, v, a) ==
    LET e == ToEuler(m)
    IN  [dcm |-> FromEuler(0, 90, e.yaw),
         velocity_ef |-> IF TailsitterZeroes(a.z) THEN Zero3 ELSE v]

\* the switch on ground_behavior: attitude, velocity, rate and smoothing flag
GroundBehave(gb, m, v, a, g, sm) ==
    CASE gb = "NO_MOVEMENT" ->
            GroundNoMovement(m, v) @@ [gyro |-> Zero3, use_smoothing |-> TRUE]
      [] gb = "FWD_ONLY" ->
            GroundFwdOnly(m, v) @@ [gyro |-> Zero3, use_smoothing |-> TRUE]
      [] gb = "TAILSITTER" ->
            GroundTailsitter(m, v, a) @@ [gyro |-> Zero3, use_smoothing |-> TRUE]
      [] OTHER ->
            [dcm |-> m, velocity_ef |-> v, gyro |-> g, use_smoothing |-> sm]

\* ------------------------------------------------------ update_dynamics
\* adjust_frame_time that rescales the scaled frame time by new frame time
\* over old frame time
AdjustFrameTime_Proportional(rate, ft, sft, sp, new) ==
    IF rate # new
    THEN [rate_hz |-> new, frame_time_us |-> FrameTimeUs(new),
          scaled_frame_time_ns |-> DivR(sft * FrameTimeUs(new), ft)]
    ELSE [rate_hz |-> rate, frame_time_us |-> ft, scaled_frame_time_ns |-> sft]

\* Aircraft::adjust_frame_time(new_rate)
AdjustFrameTime(rate, ft, sft, sp, new) ==
    IF rate # new
    THEN [rate_hz |-> new, frame_time_us |-> FrameTimeUs(new),
          scaled_frame_time_ns |-> ScaledFrameTimeNs(FrameTimeUs(new), sp)]
    ELSE [rate_hz |-> rate, frame_time_us |-> ft, scaled_frame_time_ns |-> sft]

\* the frame timing update_dynamics leaves behind: adjust_frame_time with the
\* loop rate constrained to rate_hz +- 1, which needs the parameter object
Adjusted(loop_rate) ==
    IF sitl_present
    THEN AdjustFrameTime(rate_hz, frame_time_us, scaled_frame_time_ns, target_speedup,
                         Constrain(loop_rate, rate_hz - 1, rate_hz + 1))
    ELSE [rate_hz |-> rate_hz, frame_time_us |-> frame_time_us,
          scaled_frame_time_ns |-> scaled_frame_time_ns]

\* gyro += rot_accel * delta_time, each axis constrained to +-2000 deg/s
IntegrateGyro(g, ra, dt) ==
    LET n == VAdd(g, VScaleDt(ra, dt, 1000000))
    IN  Vec(Constrain(n.x, -GYRO_LIMIT_DEGS, GYRO_LIMIT_DEGS),
            Constrain(n.y, -GYRO_LIMIT_DEGS, GYRO_LIMIT_DEGS),
            Constrain(n.z, -GYRO_LIMIT_DEGS, GYRO_LIMIT_DEGS))

\* (gyro - gyro_prev) / delta_time
AngAccel(g, gp, dt) ==
    LET d == VSub(g, gp)
    IN  Vec(DivR(d.x * 1000, dt) * 1000, DivR(d.y * 1000, dt) * 1000,
            DivR(d.z * 1000, dt) * 1000)

\* Aircraft::update_position: location from home and position
UpdatePosition(hm, p) ==
    Loc(hm.lat + DivR(p.x, 11), hm.lng + DivR(p.y, 11),
        DivR(hm.alt * 10 - p.z, 10))

\* Aircraft::update_dynamics(rot_accel), with accel_body as the vehicle left it.
\* st holds the members set_start_location may just have written; now1 and
\* now2 are the two readings of AP_HAL::millis() the notice makes.
UpdateDynamics(st, ab, ra, loop_rate, now1, now2) ==
    LET dt   == frame_time_us
        g1   == IntegrateGyro(gyro, ra, dt)
        ghd  == GroundHeightDifference(sitl_present, terrain_enable,
                                       st.home, st.location)
        on0  == OnGround(position.z, st.home.alt, st.ground_level, frame_height, ghd)
    IN  \E m1 \in Rotate(st.dcm, VScaleDt(g1, dt, 1000000)) :
        LET ae   == ClampAccelZ(on0, VAdd(Rot(m1, ab), Vec(0, 0, GRAVITY_CMSS)))
            v1   == VAdd(velocity_ef, VScaleDt(ae, dt, 100000))
            p1   == VAdd(position, VScaleDt(v1, dt, 1000000))
            on1  == OnGround(p1.z, st.home.alt, st.ground_level, frame_height, ghd)
            send == on1 /\ NoticeDue(on0, now1, last_ground_contact_ms)
            gb   == GroundBehave(ground_behavior, m1, v1, ae, g1, use_smoothing)
            adj  == AdjustFrameTime(rate_hz, frame_time_us, scaled_frame_time_ns,
                                    target_speedup,
                                    Constrain(loop_rate, rate_hz - 1, rate_hz + 1))
        IN  /\ ang_accel' = AngAccel(g1, gyro_prev, dt)
            /\ gyro_prev' = g1
            /\ accel_body' = RotT(m1, VAdd(ae, Vec(0, 0, -GRAVITY_CMSS)))
            /\ IF on1
               THEN /\ position' = [p1 EXCEPT !.z =
                           GroundZ(st.ground_level, frame_height, st.home.alt, ghd)]
                    /\ dcm' = gb.dcm
                    /\ velocity_ef' = gb.velocity_ef
                    /\ gyro' = gb.gyro
                    /\ use_smoothing' = gb.use_smoothing
               ELSE /\ position' = p1
                    /\ dcm' = m1
                    /\ velocity_ef' = v1
                    /\ gyro' = g1
                    /\ use_smoothing' = use_smoothing
            /\ IF send
               THEN /\ notices' = Append(notices, now1)
                    /\ last_ground_contact_ms' = now2
                    /\ millis' = now2
               ELSE /\ notices' = notices
                    /\ last_ground_contact_ms' = last_ground_contact_ms
                    /\ millis' = now1
            /\ IF sitl_present
               THEN /\ rate_hz' = adj.rate_hz
                    /\ frame_time_us' = adj.frame_time_us
                    /\ fault' = fault
               ELSE /\ UNCHANGED << rate_hz, frame_time_us >>
                    /\ fault' = "null_deref"
            /\ dyn' = [ran |-> TRUE, was_on_ground |-> on0, contact |-> on1,
                       accel_earth |-> ae, vel_int |-> v1, pos_int |-> p1,
                       att_rot |-> m1, ghd |-> ghd, sent |-> send]

\* ----------------------------------------------------------- frame pacing
MIN_SLEEP_TIME_US == 5000
PACE_WINDOW == 40

\* frame_counter * 1.0e6 / (now - last_wall_time_us), in mHz
WindowRate(fc, elapsed) ==
    ((fc * 1000000) \div elapsed) * 1000
        + (((fc * 1000000) % elapsed) * 1000) \div elapsed

\* 0.99 * achieved_rate_hz + 0.01 * rate
Smoothed(achieved, rate) ==
    achieved - DivR(achieved, 100) + DivR(rate, 100)

\* Nudge that leaves the scaled frame time alone
Nudge_Never(sft, achieved, rate, speedup) ==
    sft

\* scaled_frame_time_us *= 0.999 when the achieved rate is under the target
\* rate_hz * target_speedup, /= 0.999 otherwise
Nudge(sft, achieved, rate, speedup) ==
    IF achieved < rate * speedup * 1000
    THEN sft - DivR(sft, 1000)
    ELSE sft + DivR(sft, 999)

\* uint32(scaled_frame_time_us * frame_counter), in us
SleepTime(sft, fc) ==
    DivR(sft * fc, 1000)

\* Sleeps that sleeps whatever the sleep time is
Sleeps_Always(sleep_time) ==
    TRUE

\* whether sync_frame_time calls usleep(sleep_time)
Sleeps(sleep_time) ==
    sleep_time > MIN_SLEEP_TIME_US

\* WindowDue that only closes a window on its 40th tick
WindowDue_OnlyOnTime(fc, now, last) ==
    fc = PACE_WINDOW /\ now > last

\* the window test of sync_frame_time
WindowDue(fc, now, last) ==
    fc >= PACE_WINDOW /\ now > last

\* Aircraft::sync_frame_time, entered with the wall clock reading now and the
\* scaled frame time sft: the members and the clock it leaves behind
SyncFrameTime(now, sft, rate) ==
    LET fc    == frame_counter + 1
        el    == now - last_wall_time_us
        a1    == Smoothed(achieved_rate_hz, WindowRate(fc, el))
        sft1  == Nudge(sft, a1, rate, target_speedup)
        st    == SleepTime(sft1, fc)
    IN  IF WindowDue(fc, now, last_wall_time_us)
        THEN [frame_counter |-> 0, last_wall_time_us |-> now,
              achieved_rate_hz |-> a1, scaled_frame_time_ns |-> sft1,
              wall_us |-> IF Sleeps(st) THEN now + st ELSE now,
              updated |-> TRUE, counter |-> fc, elapsed |-> el,
              sleep_time |-> st, slept |-> Sleeps(st)]
        ELSE [frame_counter |-> fc, last_wall_time_us |-> last_wall_time_us,
              achieved_rate_hz |-> achieved_rate_hz, scaled_frame_time_ns |-> sft,
              wall_us |-> now,
              updated |-> FALSE, counter |-> fc, elapsed |-> el,
              sleep_time |-> 0, slept |-> FALSE]

\* AdvanceBy that adds the frame time whatever the backend did
AdvanceBy_Always(last, now, ft) ==
    ft

\* what time_advance adds to time_now_us
AdvanceBy(last, now, ft) ==
    IF last = now THEN ft ELSE 0

\* Aircraft::time_advance, entered with the frame timing rate, ft, sft that the
\* update left behind, dw microseconds after the previous reading of the wall
\* clock
TimeAdvance(rate, ft, sft, dw) ==
    LET add == AdvanceBy(last_time_us, time_now_us, ft)
        s   == SyncFrameTime(host.wall_us + dw, sft, rate)
    IN  /\ time_now_us' = time_now_us + add
        /\ last_time_us' = time_now_us'
        /\ UNCHANGED use_time_sync
        /\ IF use_time_sync
           THEN /\ frame_counter' = s.frame_counter
                /\ last_wall_time_us' = s.last_wall_time_us
                /\ achieved_rate_hz' = s.achieved_rate_hz
                /\ scaled_frame_time_ns' = s.scaled_frame_time_ns
                /\ host' = [host EXCEPT !.wall_us = s.wall_us, !.advanced = FALSE]
                /\ sync_obs' = [updated |-> s.updated, counter |-> s.counter,
                                elapsed |-> s.elapsed, sleep_time |-> s.sleep_time,
                                slept |-> s.slept,
                                moved |-> last_time_us # time_now_us, added |-> add,
                                windows |-> sync_obs.windows
                                              + IF s.updated THEN 1 ELSE 0]
           ELSE /\ scaled_frame_time_ns' = sft
                /\ host' = [host EXCEPT !.advanced = FALSE]
                /\ UNCHANGED << frame_counter, last_wall_time_us, achieved_rate_hz >>
                /\ sync_obs' = [NoSyncObs EXCEPT
                                    !.moved = last_time_us # time_now_us,
                                    !.added = add]

\* the vehicle's update(input): it leaves its specific force in accel_body and
\* its torque in rot_accel, integrates them, and refreshes location and time
Update(st, in) ==
    /\ UpdateDynamics(st, in.accel_body, in.rot_accel, in.loop_rate_hz,
                      millis + in.dms, millis + in.dms + in.dms2)
    /\ location' = UpdatePosition(st.home, position')
    /\ TimeAdvance(Adjusted(in.loop_rate_hz).rate_hz,
                   Adjusted(in.loop_rate_hz).frame_time_us,
                   Adjusted(in.loop_rate_hz).scaled_frame_time_ns, in.dwall)
    /\ update_calls' = update_calls + 1

\* NeedStartLocation that sets the start location on every call
NeedStartLocation_Always(set) ==
    TRUE

\* whether update_model has to set the start location first
NeedStartLocation(set) ==
    ~set

\* Aircraft::set_start_location(start_loc, start_yaw): the members it writes
StartLocation(loc, yaw) ==
    [home |-> loc, home_yaw |-> yaw, location |-> loc,
     ground_level |-> loc.alt * 10, dcm |-> FromEuler(0, 0, yaw)]

\* Aircraft::update_model(input); in.opos is what sitl->opos reads at the call
UpdateModel(in) ==
    LET need == NeedStartLocation(home_is_set)
        st   == IF need
                THEN StartLocation(Loc(in.opos.lat, in.opos.lng, in.opos.alt * 100),
                                   in.opos.hdg)
                ELSE [home |-> home, home_yaw |-> home_yaw, location |-> location,
                      ground_level |-> ground_level, dcm |-> dcm]
    IN  /\ ticks < MaxTicks
        /\ fault = "none"
        /\ ticks' = ticks + 1
        /\ last_op' = "update_model"
        /\ UNCHANGED << sitl_present, terrain_enable, frame_height, ground_behavior,
                        target_speedup >>
        /\ UNCHANGED fdm_vars
        /\ IF need /\ ~sitl_present
           THEN /\ millis' = millis + in.dms
                /\ dyn' = NoDyn
                /\ UNCHANGED << home_is_set, home, home_yaw, location, ground_level,
                                position, velocity_ef, accel_body, gyro, gyro_prev,
                                ang_accel, dcm, use_smoothing,
                                last_ground_contact_ms, time_now_us, last_time_us,
                                use_time_sync, rate_hz, frame_time_us,
                                scaled_frame_time_ns, pace_vars, notices, set_calls,
                                update_calls, fault >>
           ELSE /\ home' = st.home
                /\ home_yaw' = st.home_yaw
                /\ ground_level' = st.ground_level
                /\ home_is_set' = TRUE
                /\ set_calls' = IF need THEN set_calls + 1 ELSE set_calls
                /\ Update(st, in)

\* ------------------------------------------------------------ the inputs
\* sitl->opos at the call
OposA ==
    [lat |-> 1000, lng |-> 2000, alt |-> 0, hdg |-> 0]

OposB ==
    [lat |-> 5000, lng |-> 2000, alt |-> 5, hdg |-> 90]

\* an input frame: the vehicle's specific force and torque, the parameters
\* read through sitl, and the time since the previous call
In(ab, ra, op, dms, dms2) ==
    [accel_body |-> ab, rot_accel |-> ra, opos |-> op,
     loop_rate_hz |-> DEFAULT_RATE_HZ, dms |-> dms, dms2 |-> dms2, dwall |-> 0]

\* specific forces (body frame, cm/s^2)
Hover ==
    Vec(0, 0, -GRAVITY_CMSS)

\* 300 m/s^2 upward on top of hover: lifts a level vehicle off in one tick
Climb ==
    Vec(0, 0, -GRAVITY_CMSS - 300000)

\* 600 m/s^2 downward on top of hover
Dive ==
    Vec(0, 0, -GRAVITY_CMSS + 600000)

\* 1300 m/s^2 downward on top of hover
Slam ==
    Vec(0, 0, -GRAVITY_CMSS + 1300000)

\* 1.2 g upward on a level vehicle: accel_earth.z = -1.2 g
Lift12 ==
    Vec(0, 0, -GRAVITY_CMSS - 1177)

\* forward 360 m/s^2 (3 m/s in one tick)
Fwd3 ==
    Vec(360000, 0, -GRAVITY_CMSS)

\* forward 1000 m/s^2 (8.3 m/s in one tick) with 1.0 m/s^2 upward
Fwd8 ==
    Vec(1000000, 0, -GRAVITY_CMSS - 100)

\* a torque that spins the vehicle up to 1999 deg/s in one tick
Spin ==
    Vec(0, 2400000, 0)

GroundInputs ==
    { In(ab, Zero3, OposA, 1, 0) : ab \in {Hover, Climb, Dive, Lift12, Fwd8} }

InitGround ==
    \E gb \in GroundBehaviours, c \in {<<0, FALSE>>, <<100, TRUE>>} :
        Constructed(TRUE, c[2], gb, c[1], DefaultParams)

NextGround ==
    \E in \in GroundInputs : UpdateModel(in)

\* the ticks of a vehicle on and near the ground
SpecGround ==
    InitGround /\ [][NextGround]_vars

\* ------------------------------------------------- claims on SpecGround
\* the tick that just ended ran update_dynamics
DynRan ==
    last_op = "update_model" /\ dyn.ran

\* height above ground of the integrated position, before the clamp
HaglInt ==
    (-dyn.pos_int.z) + home.alt * 10 - ground_level - frame_height - dyn.ghd

\* C1 as stated: a vehicle that was within 1 mm of the ground when the tick
\* began ends the tick with position.z = -(ground_level + frame_height -
\* home_alt + terrain_correction), whatever its vertical velocity and mode.
C1_ClampWheneverWasOnGround ==
    (DynRan /\ dyn.was_on_ground)
        => position.z = -(ground_level + frame_height - home.alt * 10 + dyn.ghd)

\* C1 amended: the clamp is decided after the tick's position integration. A
\* tick whose integrated position is within 1 mm of the ground ends with
\* position.z = -(ground_level + frame_height - home_alt + terrain_correction)
\* exactly, whatever the velocity and the mode; a tick whose integrated
\* position is higher keeps the integrated position.
C1_ClampAfterIntegration ==
    DynRan =>
        IF HaglInt <= GROUND_EPS_MM
        THEN position.z = -(ground_level + frame_height - home.alt * 10 + dyn.ghd)
        ELSE position = dyn.pos_int

\* C1 witness: a vehicle on the ground with a frame height is driven into the
\* ground and snapped back
C1_Witness ==
    /\ DynRan /\ dyn.was_on_ground /\ dyn.contact
    /\ frame_height # 0
    /\ dyn.vel_int.z > 0
    /\ position.z # dyn.pos_int.z

\* C2 as stated: a tick that ends in ground contact ends with velocity_ef.z
\* not positive, in every ground behaviour mode.
C2_NeverPositiveInContact ==
    (DynRan /\ dyn.contact) => velocity_ef.z <= 0

\* C2 amended: a tick that ends in ground contact ends with velocity_ef.z not
\* positive in the modes NoMovement and ForwardOnly, and in Tailsitter when
\* the vertical acceleration is above -1.1 g; in mode None, and in Tailsitter
\* at or below -1.1 g, the velocity is left as integrated.
C2_NeverPositiveWhereConstrained ==
    (DynRan /\ dyn.contact) =>
        IF \/ ground_behavior \in {"NO_MOVEMENT", "FWD_ONLY"}
           \/ /\ ground_behavior = "TAILSITTER"
              /\ dyn.accel_earth.z * 10 > -(11 * GRAVITY_CMSS)
        THEN velocity_ef.z <= 0
        ELSE velocity_ef = dyn.vel_int

\* C2 witness: NoMovement stops a vehicle that hits the ground going down
C2_Witness ==
    /\ DynRan /\ dyn.contact
    /\ ground_behavior = "NO_MOVEMENT"
    /\ dyn.vel_int.z > 0
    /\ velocity_ef.z = 0

\* C7 as stated: Tailsitter, tick ending in contact: while the vertical
\* acceleration is above -1.1 g the velocity is not zeroed; at or below
\* -1.1 g the velocity is zeroed and pitch is 90 degrees.
C7_ZeroedOnceThresholdCrossed ==
    (DynRan /\ dyn.contact /\ ground_behavior = "TAILSITTER") =>
        IF dyn.accel_earth.z * 10 > -(11 * GRAVITY_CMSS)
        THEN velocity_ef = dyn.vel_int
        ELSE velocity_ef = Zero3 /\ ToEuler(dcm).pitch = 90

\* C7 amended: Tailsitter, tick ending in contact: while the vertical
\* acceleration is above -1.1 g (e.g. -1.0 m/s^2) the velocity is zeroed; at
\* or below -1.1 g (e.g. -1.2 g) it is left as integrated; pitch is 90
\* degrees and roll 0 in both cases.
C7_ZeroedUntilThresholdCrossed ==
    (DynRan /\ dyn.contact /\ ground_behavior = "TAILSITTER") =>
        /\ ToEuler(dcm).pitch = 90
        /\ ToEuler(dcm).roll = 0
        /\ IF dyn.accel_earth.z * 10 > -(11 * GRAVITY_CMSS)
           THEN velocity_ef = Zero3
           ELSE velocity_ef = dyn.vel_int

\* C7 witness: a tailsitter lifted at 1.2 g stays in contact and keeps the
\* velocity it integrated
C7_Witness ==
    /\ DynRan /\ dyn.contact /\ ground_behavior = "TAILSITTER"
    /\ dyn.accel_earth.z * 10 <= -(11 * GRAVITY_CMSS)
    /\ dyn.vel_int # Zero3
    /\ velocity_ef = dyn.vel_int

\* --------------------------------------------------- ForwardOnly on the ground
FwdInputs ==
    { In(ab, Zero3, OposA, 1, 0) : ab \in {Fwd3, Fwd8, Climb, Slam} }
        \cup { In(Hover, Spin, OposA, 1, 0) }

InitFwd ==
    Constructed(TRUE, FALSE, "FWD_ONLY", 0, DefaultParams)

NextFwd ==
    \E in \in FwdInputs : UpdateModel(in)

\* the ticks of a ForwardOnly vehicle that rolls, pitches, jumps and lands
SpecFwd ==
    InitFwd /\ [][NextFwd]_vars

\* the tick ended in ground contact in ForwardOnly mode
FwdContact ==
    DynRan /\ dyn.contact /\ ground_behavior = "FWD_ONLY"

\* square of the horizontal (ground) speed of the integrated velocity, (cm/s)^2
GroundSpeedSq ==
    DivR(dyn.vel_int.x, 10) * DivR(dyn.vel_int.x, 10)
        + DivR(dyn.vel_int.y, 10) * DivR(dyn.vel_int.y, 10)

\* square of the speed of the integrated velocity, vertical part included
SpeedSq ==
    GroundSpeedSq + DivR(dyn.vel_int.z, 10) * DivR(dyn.vel_int.z, 10)

\* C8 as stated: ForwardOnly, tick ending in contact: with ground speed below
\* 5 m/s the pitch ends at exactly 0; with ground speed of 5 m/s or more it
\* ends at max(current pitch, 0); roll ends at 0 and yaw is retained.
C8_PitchByGroundSpeed ==
    FwdContact =>
        /\ ToEuler(dcm).roll = 0
        /\ ToEuler(dcm).yaw = ToEuler(dyn.att_rot).yaw
        /\ ToEuler(dcm).pitch =
              IF GroundSpeedSq < FWD_SPEED_CMS * FWD_SPEED_CMS
              THEN 0 ELSE Max(ToEuler(dyn.att_rot).pitch, 0)

\* C8 amended: the speed compared with 5 m/s is the length of the whole
\* earth-frame velocity after integration, vertical component included: below
\* 5 m/s the pitch ends at exactly 0, otherwise at max(current pitch, 0);
\* roll ends at 0 and yaw is retained.
C8_PitchBySpeed ==
    FwdContact =>
        /\ ToEuler(dcm).roll = 0
        /\ ToEuler(dcm).yaw = ToEuler(dyn.att_rot).yaw
        /\ ToEuler(dcm).pitch =
              IF SpeedSq < FWD_SPEED_CMS * FWD_SPEED_CMS
              THEN 0 ELSE Max(ToEuler(dyn.att_rot).pitch, 0)

\* C8 witness: a vehicle rolling faster than 5 m/s keeps a nose-up pitch
C8_Witness ==
    /\ FwdContact
    /\ GroundSpeedSq >= FWD_SPEED_CMS * FWD_SPEED_CMS
    /\ ToEuler(dyn.att_rot).pitch = 37
    /\ ToEuler(dcm).pitch = 37

\* --------------------------------------------------- ground-contact notice
NoticeInputs ==
    { In(ab, Zero3, OposA, t[1], t[2]) :
        ab \in {Climb, Dive}, t \in {<<1, 0>>, <<600, 1>>, <<1001, 0>>} }

InitNotice ==
    \E gb \in {"NONE", "NO_MOVEMENT"} : Constructed(TRUE, FALSE, gb, 0, DefaultParams)

NextNotice ==
    \E in \in NoticeInputs : UpdateModel(in)

\* the ticks of a vehicle that bounces while AP_HAL::millis() advances
SpecNotice ==
    InitNotice /\ [][NextNotice]_vars

\* C5: the ground-contact notice is sent only in a tick that began out of
\* contact and ended in contact, and any two notices are more than 1000 ms of
\* AP_HAL::millis() apart.
C5_NoticeOnTransitionOncePerSecond ==
    /\ (DynRan /\ dyn.sent) => (~dyn.was_on_ground /\ dyn.contact)
    /\ \A i, j \in DOMAIN notices :
          i < j => notices[j] - notices[i] > NOTICE_GAP_MS

\* C5 witness: two notices were sent
C5_Witness ==
    Len(notices) >= 2

\* ----------------------------------------------------------- home anchor
HomeInputs ==
    { In(ab, Zero3, op, 1, 0) : ab \in {Hover, Fwd8, Climb}, op \in {OposA, OposB} }

InitHome ==
    \E sp \in BOOLEAN : Constructed(sp, FALSE, "NONE", 0, DefaultParams)

NextHome ==
    \E in \in HomeInputs : UpdateModel(in)

\* update_model calls with and without the sitl collaborator, the origin
\* parameters changing between calls
SpecHome ==
    InitHome /\ [][NextHome]_vars

\* what holds of the home anchor in every state
HomeAnchored ==
    /\ set_calls <= 1
    /\ home_is_set <=> set_calls = 1
    /\ update_calls > 0 => home_is_set
    /\ (sitl_present /\ ticks > 0) => (home_is_set /\ update_calls = ticks)
    /\ ~sitl_present => (~home_is_set /\ update_calls = 0)

\* C6: set_start_location runs in the first update_model call in which sitl
\* is available and in no later call, home and home_yaw are unchanged by every
\* later call, and update() never runs while home is unset.
C6_HomeSetOnce ==
    /\ []HomeAnchored
    /\ [][home_is_set => /\ home' = home
                         /\ home_yaw' = home_yaw
                         /\ home_is_set'
                         /\ set_calls' = set_calls]_vars

\* C6 witness: the vehicle was updated twice on one start location
C6_Witness ==
    home_is_set /\ update_calls >= 2 /\ set_calls = 1

\* ------------------------------------------------- disturbance injectors
\* number of times a configuration parameter other than a disturbance is set
MaxSets == 2

\* the members and collaborators the injectors and fill_fdm do not write
core_vars ==
    << sitl_present, terrain_enable, home_is_set, home, home_yaw, location,
       ground_level, frame_height, position, velocity_ef, accel_body, gyro,
       gyro_prev, ang_accel, dcm, use_smoothing, last_ground_contact_ms,
       time_now_us, last_time_us, use_time_sync, rate_hz,
       dyn, notices, set_calls, update_calls, ticks >>

\* (GroundBehaviour)sitl->gnd_behav.get()
GroundBehaviourOf(n) ==
    CASE n = 0 -> "NONE" [] n = 1 -> "NO_MOVEMENT" [] n = 2 -> "FWD_ONLY"
      [] OTHER -> "TAILSITTER"

\* the body shared by add_shove_forces and add_twist_forces once sitl is known
\* to exist: d is sitl->shove or sitl->twist, now is AP_HAL::millis(); the
\* result is the record as the call leaves it and what was added
Disturb(d, now) ==
    IF d.t = 0
    THEN [d |-> d, add |-> Zero3]
    ELSE LET s == IF d.start_ms = 0 THEN now ELSE d.start_ms
         IN  IF now - s < d.t
             THEN [d |-> [d EXCEPT !.start_ms = s], add |-> Vec(d.x, d.y, d.z)]
             ELSE [d |-> [d EXCEPT !.start_ms = 0, !.t = 0], add |-> Zero3]

\* the record of an injector call at time now that added add
Observe(o, now, add) ==
    [o EXCEPT !.first_ms = IF @ = -1 THEN now ELSE @, !.now = now, !.add = add]

\* the record of an injector armed with duration t and magnitude mag
Armed(o, t, mag) ==
    [o EXCEPT !.armed_t = t, !.mag = mag, !.first_ms = -1, !.add = Zero3]

\* SIM_SHOVE_T, SIM_SHOVE_X/Y/Z written through the parameter interface
ArmShove(t, mag) ==
    /\ fault = "none"
    /\ sitl_present
    /\ steps.arms < MaxArms
    /\ steps' = [steps EXCEPT !.arms = @ + 1]
    /\ sitl' = [sitl EXCEPT !.shove.t = t, !.shove.x = mag.x,
                            !.shove.y = mag.y, !.shove.z = mag.z]
    /\ inj' = [inj EXCEPT !.shove = Armed(@, t, mag)]
    /\ last_op' = "arm_shove"
    /\ UNCHANGED << core_vars, millis, ground_behavior, target_speedup,
                    frame_time_us, scaled_frame_time_ns, pace_vars, params, smoothing,
                    last_imu_rotation,
                    custom_found, last_speedup, fdm, fault, fill_obs >>

\* SIM_TWIST_T, SIM_TWIST_X/Y/Z written through the parameter interface
ArmTwist(t, mag) ==
    /\ fault = "none"
    /\ sitl_present
    /\ steps.arms < MaxArms
    /\ steps' = [steps EXCEPT !.arms = @ + 1]
    /\ sitl' = [sitl EXCEPT !.twist.t = t, !.twist.x = mag.x,
                            !.twist.y = mag.y, !.twist.z = mag.z]
    /\ inj' = [inj EXCEPT !.twist = Armed(@, t, mag)]
    /\ last_op' = "arm_twist"
    /\ UNCHANGED << core_vars, millis, ground_behavior, target_speedup,
                    frame_time_us, scaled_frame_time_ns, pace_vars, params, smoothing,
                    last_imu_rotation,
                    custom_found, last_speedup, fdm, fault, fill_obs >>

\* SIM_GND_BEHAV written through the parameter interface
SetGndBehav(n) ==
    /\ fault = "none"
    /\ sitl_present
    /\ steps.sets < MaxSets
    /\ sitl.gnd_behav # n
    /\ steps' = [steps EXCEPT !.sets = @ + 1]
    /\ sitl' = [sitl EXCEPT !.gnd_behav = n]
    /\ last_op' = "set_gnd_behav"
    /\ UNCHANGED << core_vars, millis, ground_behavior, target_speedup,
                    frame_time_us, scaled_frame_time_ns, pace_vars, params, smoothing,
                    last_imu_rotation,
                    custom_found, last_speedup, fdm, fault, fill_obs, inj >>

\* Aircraft::add_shove_forces(rot_accel, body_accel), dms after the last
\* reading of the clock; inj.shove.add is what it added to body_accel
AddShoveForces(dms) ==
    LET now == millis + dms
        r   == Disturb(sitl.shove, now)
    IN  /\ fault = "none"
        /\ steps.calls < MaxCalls
        /\ steps' = [steps EXCEPT !.calls = @ + 1]
        /\ millis' = now
        /\ last_op' = "add_shove_forces"
        /\ IF sitl_present
           THEN /\ sitl' = [sitl EXCEPT !.shove = r.d]
                /\ inj' = [inj EXCEPT !.shove = Observe(@, now, r.add)]
           ELSE /\ sitl' = sitl
                /\ inj' = [inj EXCEPT !.shove = Observe(@, now, Zero3)]
        /\ UNCHANGED << core_vars, ground_behavior, target_speedup, frame_time_us,
                        scaled_frame_time_ns, pace_vars, params, smoothing,
                        last_imu_rotation, custom_found, last_speedup, fdm,
                        fault, fill_obs >>

\* Aircraft::add_twist_forces(rot_accel); inj.twist.add is what it added
AddTwistForces(dms) ==
    LET now == millis + dms
        r   == Disturb(sitl.twist, now)
    IN  /\ fault = "none"
        /\ steps.calls < MaxCalls
        /\ steps' = [steps EXCEPT !.calls = @ + 1]
        /\ millis' = now
        /\ last_op' = "add_twist_forces"
        /\ IF sitl_present
           THEN /\ ground_behavior' = IF sitl.gnd_behav # -1
                                      THEN GroundBehaviourOf(sitl.gnd_behav)
                                      ELSE ground_behavior
                /\ sitl' = [sitl EXCEPT !.twist = r.d]
                /\ inj' = [inj EXCEPT !.twist = Observe(@, now, r.add)]
           ELSE /\ ground_behavior' = ground_behavior
                /\ sitl' = sitl
                /\ inj' = [inj EXCEPT !.twist = Observe(@, now, Zero3)]
        /\ UNCHANGED << core_vars, target_speedup, frame_time_us,
                        scaled_frame_time_ns, pace_vars, params,
                        smoothing, last_imu_rotation, custom_found, last_speedup,
                        fdm, fault, fill_obs >>

\* the shove and the twist the parameters are given (cm/s^2, deg/s^2)
ShoveMag ==
    Vec(100, 0, -50)

TwistMag ==
    Vec(0, 30, 0)

\* durations a disturbance is armed with, ms
ArmDurations ==
    {0, 2}

\* time between two readings of the clock, ms
ClockSteps ==
    {0, 1, 2}

InitDisturb ==
    Constructed(TRUE, FALSE, "NONE", 0, DefaultParams)

NextDisturb ==
    \/ \E t \in ArmDurations : ArmShove(t, ShoveMag)
    \/ \E t \in ArmDurations : ArmTwist(t, TwistMag)
    \/ SetGndBehav(2)
    \/ \E dms \in ClockSteps : AddShoveForces(dms)
    \/ \E dms \in ClockSteps : AddTwistForces(dms)

\* a vehicle whose shove and twist are armed and applied
SpecDisturb ==
    InitDisturb /\ [][NextDisturb]_vars

\* ------------------------------------------------ claims on SpecDisturb
\* what the round trip asks of the last call of one injector: o is what the
\* injector was armed with and did, d the sitl record it works on. The span is
\* counted from the first call that follows the arming.
RoundTrip(o, d) ==
    o.first_ms # -1 =>
        /\ o.armed_t = 0 => o.add = Zero3
        /\ (o.armed_t > 0 /\ o.now - o.first_ms < o.armed_t) => o.add = o.mag
        /\ (o.armed_t > 0 /\ o.now - o.first_ms >= o.armed_t) =>
               (o.add = Zero3 /\ d.t = 0 /\ d.start_ms = 0)

\* C3: for the shove and for the twist, a disturbance armed with duration 0
\* adds nothing on any call; one armed with a positive duration t adds its
\* magnitude on every call within t ms of its arming, adds nothing on any later
\* call, and is then cleared (duration and start timestamp both 0).
C3_DisturbanceRoundTrip ==
    RoundTrip(inj.shove, sitl.shove) /\ RoundTrip(inj.twist, sitl.twist)

\* ------------------------------------------------------------ smoothing
\* NeedsReset that resets on first use only
NeedsReset_FirstUseOnly(last_us, delta_pos) ==
    last_us = 0

\* whether smooth_sensors resets the smoothed state to the truth state:
\* smoothing.last_update_us == 0 || delta_pos.length() > 10
NeedsReset(last_us, delta_pos) ==
    last_us = 0 \/ LenSq10(delta_pos) > SMOOTH_RESET_CM * SMOOTH_RESET_CM

\* the truth state as the reset copies it
TruthCopy(en, now) ==
    [enabled |-> en, position |-> position, rotation_b2e |-> dcm,
     accel_body |-> accel_body, velocity_ef |-> velocity_ef, gyro |-> gyro,
     last_update_us |-> now, location |-> location]

\* the axis-angle of desired_q / current_q, in degrees, taken axis by axis from
\* the Euler angles (exact when the two attitudes differ about one axis)
AngleDifferential(desired, current) ==
    Vec(desired.roll - current.roll, desired.pitch - current.pitch,
        desired.yaw - current.yaw)

\* whether smooth_sensors returns without integrating, dt in us
SkipsUpdate(dt) ==
    dt < 0 \/ dt > SMOOTH_MAX_DT_US

\* Aircraft::smooth_sensors: the values it may leave in the smoothing member
SmoothSensors ==
    LET now       == time_now_us
        delta_pos == VSub(position, smoothing.position)
        dt        == now - smoothing.last_update_us
        lim       == SMOOTH_ACCEL_G * GRAVITY_CMSS
        dvel      == VAdd(VSub(velocity_ef, smoothing.velocity_ef),
                          Vec(delta_pos.x * SMOOTH_INV_TC, delta_pos.y * SMOOTH_INV_TC,
                              delta_pos.z * SMOOTH_INV_TC))
        raw       == VAdd(Vec(DivR(dvel.x * SMOOTH_INV_TC, 10),
                              DivR(dvel.y * SMOOTH_INV_TC, 10),
                              DivR(dvel.z * SMOOTH_INV_TC, 10)),
                          VAdd(Rot(dcm, accel_body), Vec(0, 0, GRAVITY_CMSS)))
        accel_e   == Vec(Constrain(raw.x, -lim, lim), Constrain(raw.y, -lim, lim),
                         Constrain(raw.z, -lim, lim))
        ad        == AngleDifferential(dcm, smoothing.rotation_b2e)
        sg        == VAdd(gyro, Vec(ad.x * SMOOTH_INV_TC, ad.y * SMOOTH_INV_TC,
                                    ad.z * SMOOTH_INV_TC))
        sv        == VAdd(smoothing.velocity_ef, VScaleDt(accel_e, dt, 100000))
        sp        == VAdd(smoothing.position, VScaleDt(sv, dt, 1000000))
    IN  IF NeedsReset(smoothing.last_update_us, delta_pos)
        THEN { TruthCopy(smoothing.enabled, now) }
        ELSE IF SkipsUpdate(dt)
        THEN { smoothing }
        ELSE { [enabled |-> TRUE, position |-> sp, rotation_b2e |-> r,
                accel_body |-> RotT(smoothing.rotation_b2e,
                                    VAdd(accel_e, Vec(0, 0, -GRAVITY_CMSS))),
                velocity_ef |-> sv, gyro |-> sg, last_update_us |-> now,
                location |-> UpdatePosition(home, sp)] :
               r \in Rotate(smoothing.rotation_b2e, VScaleDt(sg, dt, 1000000)) }

\* Aircraft::extrapolate_sensors(delta_time), delta in us (the air-relative
\* velocities it also refreshes are not part of this model)
ExtrapolateSensors(delta) ==
    LET ae == VAdd(Rot(dcm, accel_body), Vec(0, 0, GRAVITY_CMSS))
    IN  /\ fault = "none"
        /\ steps.extraps < MaxExtrap
        /\ steps' = [steps EXCEPT !.extraps = @ + 1]
        /\ last_op' = "extrapolate_sensors"
        /\ \E m1 \in Rotate(dcm, VScaleDt(gyro, delta, 1000000)) :
            LET v1 == VAdd(velocity_ef, VScaleDt(ae, delta, 100000))
            IN  /\ dcm' = m1
                /\ accel_body' = RotT(m1, VAdd(ae, Vec(0, 0, -GRAVITY_CMSS)))
                /\ velocity_ef' = v1
                /\ position' = VAdd(position, VScaleDt(v1, delta, 1000000))
        /\ UNCHANGED << sitl_present, terrain_enable, millis, home_is_set, home,
                        home_yaw, location, ground_level, frame_height, gyro,
                        gyro_prev, ang_accel, ground_behavior, use_smoothing,
                        last_ground_contact_ms, time_now_us, last_time_us,
                        use_time_sync, rate_hz, target_speedup, frame_time_us,
                        scaled_frame_time_ns, pace_vars, sitl, params, smoothing,
                        last_imu_rotation, custom_found, last_speedup, fdm, dyn,
                        notices, set_calls, update_calls, ticks, fault, fill_obs,
                        inj >>

\* -------------------------------------------------------------- fill_fdm
\* the Euler triples to_euler can return
EulerTriples ==
    { e \in [roll : AngleSet, pitch : AngleSet \ {180}, yaw : AngleSet] :
        ToEuler(e) = e }

\* Matrix3f * Matrix3f::transposed(): the entries of a * b^T, each times 125^2
MulT(a, b) ==
    LET A == Mat(a)
        B == Mat(b)
    IN  [ax |-> A.ax * B.ax + A.ay * B.ay + A.az * B.az,
         ay |-> A.ax * B.bx + A.ay * B.by + A.az * B.bz,
         az |-> A.ax * B.cx + A.ay * B.cy + A.az * B.cz,
         bx |-> A.bx * B.ax + A.by * B.ay + A.bz * B.az,
         by |-> A.bx * B.bx + A.by * B.by + A.bz * B.bz,
         bz |-> A.bx * B.cx + A.by * B.cy + A.bz * B.cz,
         cx |-> A.cx * B.ax + A.cy * B.ay + A.cz * B.az,
         cy |-> A.cx * B.bx + A.cy * B.by + A.cz * B.bz,
         cz |-> A.cx * B.cx + A.cy * B.cy + A.cz * B.cz]

\* m = dcm * sitl->ahrs_rotation_inv; m.to_euler(&r, &p, &y)
Remap(d, rot) ==
    LET P == MulT(d, rot)
    IN  CHOOSE e \in EulerTriples :
            [f \in DOMAIN P |-> Mat(e)[f] * 125] = P

\* AHRS_CUSTOM_ROLL / AHRS_CUSTOM_PIT / AHRS_CUSTOM_YAW as configured
CustomAngles ==
    FromEuler(0, 0, 180)

\* a read through a null sitl: the process stops there, or the read returns
\* whatever the address holds
NullReads ==
    { [crash |-> TRUE, value |-> 0], [crash |-> FALSE, value |-> 0],
      [crash |-> FALSE, value |-> 2] }

\* a read through a sitl that exists
SitlRead ==
    [crash |-> FALSE, value |-> 0]

\* Aircraft::set_speedup(speedup), i.e. setup_frame_time(rate_hz, speedup)
SetSpeedup(speedup) ==
    [target_speedup |-> speedup, frame_time_us |-> FrameTimeUs(rate_hz),
     scaled_frame_time_ns |-> ScaledFrameTimeNs(FrameTimeUs(rate_hz), speedup),
     last_wall_time_us |-> host.wall_us, achieved_rate_hz |-> rate_hz * 1000]

\* Aircraft::fill_fdm(fdm); ub is what a read through sitl does when sitl is null
FillFdm(ub) ==
    LET imu     == params.ahrs_orientation
        changed == imu # "null" /\ imu # last_imu_rotation
        found   == IF changed /\ imu = "CUSTOM" /\ ~custom_found
                   THEN params.custom_findable ELSE custom_found
        panic   == changed /\ imu = "CUSTOM" /\ ~found
        crash   == (~sitl_present) /\ ub.crash /\ ~panic
        rot     == IF changed /\ imu = "CUSTOM" THEN CustomAngles
                   ELSE IF changed THEN FromRotation(imu)
                   ELSE sitl.ahrs_rotation
        remap   == imu \notin {"null", "NONE"} /\ ~panic /\ ~crash
        speedup == IF sitl_present THEN sitl.speedup ELSE ub.value
        set     == (~panic) /\ (~crash) /\ last_speedup # speedup /\ speedup > 0
        delta   == VSub(position, smoothing.position)
    IN  /\ fault = "none"
        /\ steps.fills < MaxFills
        /\ steps' = [steps EXCEPT !.fills = @ + 1]
        /\ last_op' = "fill_fdm"
        /\ smoothing' \in (IF use_smoothing THEN SmoothSensors ELSE {smoothing})
        /\ LET sm   == smoothing'
               base == [timestamp_us |-> time_now_us,
                        home |-> IF fdm.home.lat = 0 /\ fdm.home.lng = 0
                                 THEN home ELSE fdm.home,
                        location |-> IF sm.enabled THEN sm.location ELSE location,
                        speed |-> IF sm.enabled THEN sm.velocity_ef ELSE velocity_ef,
                        accel |-> IF sm.enabled THEN sm.accel_body ELSE accel_body,
                        rates |-> IF sm.enabled THEN sm.gyro ELSE gyro,
                        angAccel |-> ang_accel,
                        att |-> ToEuler(dcm)]
           IN  fdm' = IF remap THEN [base EXCEPT !.att = Remap(dcm, rot)] ELSE base
        /\ custom_found' = found
        /\ last_imu_rotation' = IF changed /\ imu # "CUSTOM" /\ ~crash
                                THEN imu ELSE last_imu_rotation
        /\ sitl' = IF changed /\ sitl_present /\ ~panic
                   THEN [sitl EXCEPT !.ahrs_rotation = rot] ELSE sitl
        /\ fault' = IF panic THEN "panic"
                    ELSE IF crash THEN "null_deref" ELSE "none"
        /\ IF set
           THEN /\ target_speedup' = SetSpeedup(speedup).target_speedup
                /\ frame_time_us' = SetSpeedup(speedup).frame_time_us
                /\ scaled_frame_time_ns' = SetSpeedup(speedup).scaled_frame_time_ns
                /\ last_wall_time_us' = SetSpeedup(speedup).last_wall_time_us
                /\ achieved_rate_hz' = SetSpeedup(speedup).achieved_rate_hz
                /\ last_speedup' = speedup
           ELSE UNCHANGED << target_speedup, frame_time_us, scaled_frame_time_ns,
                             last_wall_time_us, achieved_rate_hz, last_speedup >>
        /\ UNCHANGED << frame_counter, host, sync_obs >>
        /\ fill_obs' = [smoothed |-> use_smoothing,
                        first_use |-> use_smoothing /\ smoothing.last_update_us = 0,
                        div_sq |-> LenSq10(delta),
                        reset |-> use_smoothing
                                  /\ NeedsReset(smoothing.last_update_us, delta),
                        had_prev |-> steps.fills > 0,
                        truth_prev |-> fill_obs.truth_now,
                        truth_now |-> position,
                        imu_rotation |-> OrientationRead(params),
                        resolvable |-> custom_found \/ params.custom_findable,
                        remapped |-> remap,
                        null_read |-> ~sitl_present /\ ~panic,
                        elapsed |-> time_now_us - smoothing.last_update_us,
                        skipped |-> /\ use_smoothing
                                    /\ ~NeedsReset(smoothing.last_update_us, delta)
                                    /\ SkipsUpdate(time_now_us
                                                     - smoothing.last_update_us),
                        kept |-> smoothing' = smoothing,
                        prev_skipped |-> fill_obs.skipped,
                        since_prev |-> time_now_us - fdm.timestamp_us]
        /\ UNCHANGED << core_vars, millis, ground_behavior, params, inj >>

\* ------------------------------------------------------------ SpecSmooth
\* forward 6 m/s^2 on top of hover
Push6 ==
    Vec(600, 0, -GRAVITY_CMSS)

\* backward 11 m/s^2 on top of hover
Pull11 ==
    Vec(-1100, 0, -GRAVITY_CMSS)

\* the time extrapolate_sensors is asked to cover, us
ExtrapolateUs ==
    1000000

SmoothInputs ==
    { In(ab, Zero3, OposA, 1, 0) : ab \in {Push6, Pull11} }

InitSmooth ==
    Constructed(TRUE, FALSE, "NO_MOVEMENT", 0, DefaultParams)

NextSmooth ==
    \/ \E in \in SmoothInputs : UpdateModel(in)
    \/ ExtrapolateSensors(ExtrapolateUs)
    \/ FillFdm(SitlRead)

\* a vehicle resting on the ground whose state is pushed about between the
\* fill_fdm calls that smooth it
SpecSmooth ==
    InitSmooth /\ [][NextSmooth]_vars

\* -------------------------------------------------- claims on SpecSmooth
\* the smoothed state equals the truth state
SmoothedIsTruth ==
    /\ smoothing.position = position
    /\ smoothing.rotation_b2e = dcm
    /\ smoothing.velocity_ef = velocity_ef
    /\ smoothing.gyro = gyro
    /\ smoothing.accel_body = accel_body
    /\ smoothing.location = location

\* the truth position moved by more than 10 m between the last two fill_fdm
\* calls
TruthJumped ==
    /\ fill_obs.had_prev
    /\ LenSq10(VSub(fill_obs.truth_now, fill_obs.truth_prev))
           > SMOOTH_RESET_CM * SMOOTH_RESET_CM

\* C4 as stated: if the truth position changes by more than 10 m between two
\* consecutive ticks, the smoothed state equals the truth state exactly on the
\* following tick (taken on the ticks whose fill_fdm runs the smoothing).
C4_ResetOnTruthJump ==
    (last_op = "fill_fdm" /\ fill_obs.smoothed /\ TruthJumped) => SmoothedIsTruth

\* C4 as the code has it: when fill_fdm runs the smoothing (use_smoothing set)
\* and either the smoothing has never run or the truth position is more than
\* 10 m away from the smoothed position, that same call leaves the smoothed
\* state equal to the truth state exactly.
C4_ResetOnDivergence ==
    (last_op = "fill_fdm" /\ fill_obs.smoothed
        /\ (fill_obs.first_use
              \/ fill_obs.div_sq > SMOOTH_RESET_CM * SMOOTH_RESET_CM))
    => SmoothedIsTruth

\* a reset that the divergence caused, not the first use
C4_Witness ==
    /\ last_op = "fill_fdm"
    /\ fill_obs.smoothed
    /\ ~fill_obs.first_use
    /\ fill_obs.div_sq > SMOOTH_RESET_CM * SMOOTH_RESET_CM
    /\ SmoothedIsTruth

\* --------------------------------------------------------------- SpecFdm
\* AHRS_ORIENTATION written through the parameter interface
SetOrientation(r) ==
    /\ fault = "none"
    /\ params.ahrs_orientation \notin {"null", r}
    /\ steps.sets < MaxSets
    /\ steps' = [steps EXCEPT !.sets = @ + 1]
    /\ params' = [params EXCEPT !.ahrs_orientation = r]
    /\ last_op' = "set_orientation"
    /\ UNCHANGED << core_vars, millis, ground_behavior, target_speedup,
                    frame_time_us, scaled_frame_time_ns, pace_vars, sitl, smoothing,
                    last_imu_rotation, custom_found, last_speedup, fdm, fault,
                    fill_obs, inj >>

FdmInputs ==
    { In(Hover, Zero3, op, 1, 0) : op \in {OposA, OposB} }

InitFdm ==
    \E ao \in {"null"} \cup Rotations, cf \in BOOLEAN :
        Constructed(TRUE, FALSE, "NONE", 0, ParamStore(ao, cf))

NextFdm ==
    \/ \E in \in FdmInputs : UpdateModel(in)
    \/ \E r \in Rotations : SetOrientation(r)
    \/ FillFdm(SitlRead)

\* a vehicle whose mounting rotation is configured and reconfigured between
\* the fill_fdm calls
SpecFdm ==
    InitFdm /\ [][NextFdm]_vars

StandaloneInputs ==
    { In(Hover, Zero3, OposA, 1, 0) }

InitStandalone ==
    \E gb \in {"NONE", "NO_MOVEMENT"}, ao \in {"null", "NONE"} :
        Constructed(FALSE, FALSE, gb, 0, ParamStore(ao, FALSE))

NextStandalone ==
    \/ \E in \in StandaloneInputs : UpdateModel(in)
    \/ AddShoveForces(1)
    \/ AddTwistForces(1)
    \/ \E ub \in NullReads : FillFdm(ub)

\* the per-tick operations of a vehicle built without the SITL parameter
\* object (sitl == nullptr)
SpecStandalone ==
    InitStandalone /\ [][NextStandalone]_vars

\* ---------------------------------------------- claims on SpecStandalone
\* C10: with sitl == nullptr every per-tick operation completes without
\* reading through the null pointer: no call faults and none reads through it.
C10_NoReadThroughAbsentSitl ==
    (~sitl_present) => (fault = "none" /\ ~fill_obs.null_read)

\* ============================================================ clock (C11)
MaxClockSteps == 4
MaxRetunes == 2

\* everything but the clock, the frame timing and the pacing state
clock_rest ==
    << sitl_present, terrain_enable, millis, home_is_set, home, home_yaw, location,
       ground_level, frame_height, position, velocity_ef, accel_body, gyro, gyro_prev,
       ang_accel, dcm, ground_behavior, use_smoothing, last_ground_contact_ms,
       sitl, params, smoothing, last_imu_rotation, custom_found, last_speedup, fdm,
       dyn, notices, set_calls, update_calls, ticks, fault, fill_obs, inj >>

\* a call of time_advance on its own, dw microseconds of wall time after the
\* previous reading of the wall clock
TimeAdvanceCall(dw) ==
    /\ TimeAdvance(rate_hz, frame_time_us, scaled_frame_time_ns, dw)
    /\ steps' = [steps EXCEPT !.clock = @ + 1]
    /\ last_op' = "time_advance"
    /\ UNCHANGED << rate_hz, target_speedup, frame_time_us, clock_rest >>

\* a backend that keeps its own time moves time_now_us forward by d
BackendAdvance(d) ==
    /\ time_now_us' = time_now_us + d
    /\ host' = [host EXCEPT !.advanced = TRUE]
    /\ last_op' = "backend"
    /\ UNCHANGED << last_time_us, use_time_sync, rate_hz, target_speedup,
                    frame_time_us, scaled_frame_time_ns, frame_counter,
                    last_wall_time_us, achieved_rate_hz, sync_obs, steps, clock_rest >>

\* Aircraft::setup_frame_time(new_rate, new_speedup)
SetupFrameTime(new_rate, new_speedup) ==
    /\ rate_hz' = new_rate
    /\ target_speedup' = new_speedup
    /\ frame_time_us' = FrameTimeUs(new_rate)
    /\ scaled_frame_time_ns' = ScaledFrameTimeNs(FrameTimeUs(new_rate), new_speedup)
    /\ last_wall_time_us' = host.wall_us
    /\ achieved_rate_hz' = new_rate * 1000
    /\ steps' = [steps EXCEPT !.retunes = @ + 1]
    /\ last_op' = "setup_frame_time"
    /\ UNCHANGED << time_now_us, last_time_us, use_time_sync, frame_counter, host,
                    sync_obs, clock_rest >>

\* a call of adjust_frame_time(new_rate) on its own
AdjustFrameTimeCall(new_rate) ==
    LET adj == AdjustFrameTime(rate_hz, frame_time_us, scaled_frame_time_ns,
                               target_speedup, new_rate)
    IN  /\ rate_hz' = adj.rate_hz
        /\ frame_time_us' = adj.frame_time_us
        /\ scaled_frame_time_ns' = adj.scaled_frame_time_ns
        /\ steps' = [steps EXCEPT !.retunes = @ + 1]
        /\ last_op' = "adjust_frame_time"
        /\ UNCHANGED << time_now_us, last_time_us, use_time_sync, target_speedup,
                        pace_vars, clock_rest >>

\* the rates, speedups, backend steps and wall-clock steps tried
ClockRates == {400, 1200}
ClockSpeedups == {1, 2}
BackendSteps == {1, 2500}
WallSteps == {0, 900}

InitClock ==
    \E ts \in BOOLEAN :
        ConstructedWith(TRUE, FALSE, "NONE", 0, DefaultParams,
                        [use_time_sync |-> ts, tick_cost |-> 0])

NextClock ==
    \/ /\ steps.clock < MaxClockSteps
       /\ \E dw \in WallSteps : TimeAdvanceCall(dw)
    \/ /\ steps.clock < MaxClockSteps
       /\ ~host.advanced
       /\ \E d \in BackendSteps : BackendAdvance(d)
    \/ /\ steps.retunes < MaxRetunes
       /\ \E r \in ClockRates, sp \in ClockSpeedups : SetupFrameTime(r, sp)
    \/ /\ steps.retunes < MaxRetunes
       /\ \E r \in {rate_hz - 1, rate_hz, rate_hz + 1} : AdjustFrameTimeCall(r)

SpecClock == InitClock /\ [][NextClock]_vars

\* C11: time_now_us never decreases, and a time_advance call adds frame_time_us
\* exactly when the backend has not moved the clock since the previous call and
\* adds nothing otherwise.
C11_ClockMonotonic ==
    [][/\ time_now_us' >= time_now_us
       /\ (steps'.clock # steps.clock) =>
             (time_now_us' - time_now_us
                = IF host.advanced THEN 0 ELSE frame_time_us)]_vars

\* a time_advance that found the clock moved by the backend, after a retune
C11_Witness ==
    /\ last_op = "time_advance"
    /\ sync_obs.moved
    /\ sync_obs.added = 0
    /\ steps.retunes > 0
    /\ time_now_us > 0

\* =========================================================== pacing (C12)
MaxWindows == 800
SettleWindows == 750

\* the constant wall-clock cost of a tick on the hosts tried, in us
TickCosts == {8, 100, 900}

InitPace ==
    \E c \in TickCosts :
        ConstructedWith(TRUE, FALSE, "NONE", 0, DefaultParams,
                        [use_time_sync |-> TRUE, tick_cost |-> c])

\* one tick: the host spends tick_cost on it, then time_advance runs
NextPace ==
    /\ sync_obs.windows < MaxWindows
    /\ TimeAdvanceCall(host.tick_cost)

SpecPace == InitPace /\ [][NextPace]_vars

\* achieved_rate_hz is within 1% of rate_hz * target_speedup
InBand ==
    Abs(achieved_rate_hz - rate_hz * target_speedup * 1000) * 100
        <= rate_hz * target_speedup * 1000

\* the ticks leave the host time to sleep: a window of scaled ticks less the
\* cost of its ticks is longer than min_sleep_time
Feasible ==
    (ScaledFrameTimeNs(frame_time_us, target_speedup) - host.tick_cost * 1000)
        * PACE_WINDOW > MIN_SLEEP_TIME_US * 1000

LongStep == 150000

SkipInputs ==
    { In(ab, Zero3, OposA, 1, 0) : ab \in {Push6, Pull11} }

InitSkip ==
    Constructed(TRUE, FALSE, "NO_MOVEMENT", 0, DefaultParams)

NextSkip ==
    \/ \E in \in SkipInputs : UpdateModel(in)
    \/ /\ ~host.advanced
       /\ fault = "none"
       /\ BackendAdvance(LongStep)
    \/ FillFdm(SitlRead)

\* a vehicle on the ground behind a backend that can move the clock by more
\* than 0.1 s between two fill_fdm calls
SpecSkip == InitSkip /\ [][NextSkip]_vars

\* C13: a smoothing update whose elapsed time is non-positive or over 0.1 s
\* leaves the smoothed state unchanged, and the call made one tick after a
\* skipped one integrates again.
C13_SkipAffectsOneTick ==
    (last_op = "fill_fdm" /\ fill_obs.smoothed /\ ~fill_obs.reset) =>
        /\ (fill_obs.elapsed <= 0 \/ fill_obs.elapsed > SMOOTH_MAX_DT_US)
              => fill_obs.kept
        /\ (fill_obs.prev_skipped /\ fill_obs.since_prev = frame_time_us)
              => (~fill_obs.skipped /\ smoothing.last_update_us = time_now_us)

\* ================================================ pacing windows (C14, C15)
MaxSyncTicks == 85

\* the speedups set_speedup is called with
SyncSpeedups == {1, 10}

\* a fast host and one on which a tick costs more than its period
SyncCosts == {8, 900}

InitSync ==
    \E c \in SyncCosts :
        ConstructedWith(TRUE, FALSE, "NONE", 0, DefaultParams,
                        [use_time_sync |-> TRUE, tick_cost |-> c])

\* ticks at a constant cost, with the frame time set up or adjusted between
\* two pacing windows
NextSync ==
    \/ /\ steps.clock < MaxSyncTicks
       /\ TimeAdvanceCall(host.tick_cost)
    \/ /\ steps.retunes < MaxRetunes
       /\ frame_counter = 0
       /\ \E sp \in SyncSpeedups : SetupFrameTime(rate_hz, sp)
    \/ /\ steps.retunes < MaxRetunes
       /\ frame_counter = 0
       /\ \E r \in {rate_hz - 1, rate_hz, rate_hz + 1} : AdjustFrameTimeCall(r)

SpecSync == InitSync /\ [][NextSync]_vars

\* the last operation was a time_advance whose sync_frame_time closed a window
WindowClosed ==
    last_op = "time_advance" /\ use_time_sync /\ sync_obs.updated

\* C14 as stated: at a window boundary the scheduler sleeps for the scaled
\* window duration less the wall time already elapsed in the window, and only
\* if that shortfall exceeds min_sleep_time.
C14_SleepsForShortfall ==
    WindowClosed =>
        LET shortfall == SleepTime(scaled_frame_time_ns, sync_obs.counter)
                            - sync_obs.elapsed
        IN  /\ sync_obs.slept <=> shortfall > MIN_SLEEP_TIME_US
            /\ host.wall_us - last_wall_time_us
                  = IF sync_obs.slept THEN shortfall ELSE 0

\* C14: at a window boundary the scheduler sleeps for the whole scaled window
\* duration (the nudged scaled frame time times the ticks of the window),
\* whatever wall time has elapsed, and only if that exceeds min_sleep_time.
C14_SleepsForWindow ==
    WindowClosed =>
        /\ sync_obs.sleep_time = SleepTime(scaled_frame_time_ns, sync_obs.counter)
        /\ sync_obs.slept <=> sync_obs.sleep_time > MIN_SLEEP_TIME_US
        /\ host.wall_us - last_wall_time_us
              = IF sync_obs.slept THEN sync_obs.sleep_time ELSE 0

\* a window that had already taken longer than its scaled duration and slept
C14_Witness ==
    /\ WindowClosed
    /\ sync_obs.slept
    /\ sync_obs.elapsed >= sync_obs.sleep_time
    /\ host.wall_us = last_wall_time_us + sync_obs.sleep_time

\* the step is a call of adjust_frame_time
IsAdjust ==
    steps'.retunes # steps.retunes /\ last_op' = "adjust_frame_time"

\* C15 as stated: a call with a new rate leaves scaled_frame_time_us equal to
\* its previous value times new frame_time_us over old frame_time_us (to the
\* rounding of the division); a call with the same rate changes nothing.
C15_RescaledProportionally ==
    [][IsAdjust =>
         IF rate_hz' # rate_hz
         THEN Abs(scaled_frame_time_ns' * frame_time_us
                    - scaled_frame_time_ns * frame_time_us') <= frame_time_us
         ELSE UNCHANGED << rate_hz, frame_time_us, scaled_frame_time_ns >>]_vars

\* C15: a call with a new rate recomputes scaled_frame_time_us as the new
\* frame_time_us over target_speedup, dropping the nudges; a call with the
\* same rate changes nothing.
C15_RecomputedFromRate ==
    [][IsAdjust =>
         IF rate_hz' # rate_hz
         THEN /\ frame_time_us' = FrameTimeUs(rate_hz')
              /\ scaled_frame_time_ns'
                    = ScaledFrameTimeNs(frame_time_us', target_speedup)
         ELSE UNCHANGED << rate_hz, frame_time_us, scaled_frame_time_ns >>]_vars

\* a rate change made right after the first window nudged the scaled time
C15_Witness ==
    /\ last_op = "adjust_frame_time"
    /\ sync_obs.windows = 1
    /\ steps.retunes = 1
    /\ rate_hz # DEFAULT_RATE_HZ
    /\ scaled_frame_time_ns = ScaledFrameTimeNs(frame_time_us, target_speedup)

\* ================================================== stalled clock (C16)
MaxStallTicks == 84

InitStall ==
    ConstructedWith(TRUE, FALSE, "NONE", 0, DefaultParams,
                    [use_time_sync |-> TRUE, tick_cost |-> 0])

\* ticks on a host whose clock reading may not have moved since the last one
NextStall ==
    /\ steps.clock < MaxStallTicks
    /\ \E dw \in WallSteps : TimeAdvanceCall(dw)

SpecStall == InitStall /\ [][NextStall]_vars

\* C16 as stated: a window that completes with the wall clock not advanced is
\* missed, and within the following 40 ticks a pacing update resets the tick
\* counter, so the counter never reaches two windows.
C16_RecoversWithinAWindow ==
    frame_counter < 2 * PACE_WINDOW

\* C16: a tick on which the window is complete but the wall clock has not
\* advanced past last_wall_time_us changes nothing but the tick counter (no
\* rate update, no nudge, no sleep, no fault); the first tick on which it has
\* advanced, however many ticks later, performs the pacing update over the
\* whole count, resets the counter to 0 and refreshes last_wall_time_us.
C16_RecoversWhenClockAdvances ==
    [][(steps'.clock # steps.clock) =>
         IF frame_counter + 1 >= PACE_WINDOW /\ sync_obs'.elapsed > 0
         THEN /\ sync_obs'.updated
              /\ sync_obs'.counter = frame_counter + 1
              /\ frame_counter' = 0
              /\ last_wall_time_us' = last_wall_time_us + sync_obs'.elapsed
              /\ fault' = "none"
         ELSE /\ ~sync_obs'.updated
              /\ ~sync_obs'.slept
              /\ frame_counter' = frame_counter + 1
              /\ UNCHANGED << last_wall_time_us, achieved_rate_hz,
                              scaled_frame_time_ns, fault >>]_vars

\* a pacing update that came more than 40 ticks after the missed window
C16_Witness ==
    /\ last_op = "time_advance"
    /\ sync_obs.updated
    /\ sync_obs.counter > 2 * PACE_WINDOW
    /\ frame_counter = 0
    /\ last_wall_time_us > 0

====
